---- MODULE Spec2Model ----
(***************************************************************************)
(* A model of rcat/runtime/RCAT_stats.py: the configuration resolver, the  *)
(* kernel registry and dispatcher, and the statistic kernels.              *)
(*                                                                         *)
(* Python values are modelled as tagged records so that a configuration    *)
(* option can hold None, a number, a string, a bool, a list or a dict, as  *)
(* it does in the source.  An operation is one action: it draws its        *)
(* arguments from small sets, runs the code's control flow and leaves the  *)
(* arguments, the returned value (or the raised exception), the printed    *)
(* diagnostics and the kernels it invoked in the state.                    *)
(***************************************************************************)
EXTENDS Integers, Sequences, FiniteSets, TLC

VARIABLES op, args, ret, printed, calls

vars == <<op, args, ret, printed, calls>>

(***************************************************************************)
(* Python values                                                           *)
(***************************************************************************)
None == [kind |-> "none"]
Num(n) == [kind |-> "num", v |-> n]
Frac(n, d) == [kind |-> "frac", n |-> n, d |-> d]
Str(s) == [kind |-> "str", s |-> s]
Bool(b) == [kind |-> "bool", b |-> b]
List(q) == [kind |-> "list", items |-> q]
Arange(a, b) == [kind |-> "arange", start |-> a, stop |-> b]
Dict(f) == [kind |-> "dict", m |-> f]

\* An exception raised by the code: it propagates to the caller.
Raise(e) == [status |-> e]
Raised(r) == r.status /= "ok"
\* raise <e>(<msg>) where the message matters
RaiseMsg(e, msg) == [status |-> e, msg |-> msg]

(***************************************************************************)
(* default_stats_config: the schema of every statistic                     *)
(***************************************************************************)
stats_dict ==
  ("moments" :> (
      [ vars |-> List(<<>>) ] @@
      ("moment stat" :> List(<<Str("D"), Str("mean")>>)) @@
      ("resample resolution" :> None) @@
      ("pool data" :> Bool(FALSE)) @@
      ("thr" :> None) @@
      ("cond analysis" :> None) @@
      ("chunk dimension" :> Str("time")))) @@
  ("seasonal cycle" :> (
      [ vars |-> List(<<>>) ] @@
      ("resample resolution" :> None) @@
      ("pool data" :> Bool(FALSE)) @@
      ("stat method" :> Str("mean")) @@
      ("thr" :> None) @@
      ("cond analysis" :> None) @@
      ("chunk dimension" :> Str("time")))) @@
  ("annual cycle" :> (
      [ vars |-> List(<<>>) ] @@
      ("resample resolution" :> None) @@
      ("pool data" :> Bool(FALSE)) @@
      ("stat method" :> Str("mean")) @@
      ("thr" :> None) @@
      ("cond analysis" :> None) @@
      ("chunk dimension" :> Str("time")))) @@
  ("diurnal cycle" :> (
      [ vars |-> List(<<>>) ] @@
      ("resample resolution" :> None) @@
      ("hours" :> None) @@
      ("dcycle stat" :> Str("amount")) @@
      ("stat method" :> Str("mean")) @@
      ("method kwargs" :> None) @@
      ("thr" :> None) @@
      ("cond analysis" :> None) @@
      ("pool data" :> Bool(FALSE)) @@
      ("chunk dimension" :> Str("space")))) @@
  ("dcycle harmonic" :> (
      [ vars |-> List(<<>>) ] @@
      ("resample resolution" :> None) @@
      ("pool data" :> Bool(FALSE)) @@
      ("dcycle stat" :> Str("amount")) @@
      ("thr" :> None) @@
      ("cond analysis" :> None) @@
      ("chunk dimension" :> Str("space")))) @@
  ("asop" :> (
      [ vars |-> List(<<Str("pr")>>) ] @@
      ("resample resolution" :> None) @@
      ("pool data" :> Bool(FALSE)) @@
      ("nr_bins" :> Num(80)) @@
      ("thr" :> None) @@
      ("cond analysis" :> None) @@
      ("chunk dimension" :> Str("space")))) @@
  ("eda" :> (
      [ vars |-> List(<<Str("pr")>>) ] @@
      ("resample resolution" :> None) @@
      ("pool data" :> Bool(FALSE)) @@
      ("duration bins" :> Arange(1, 51)) @@
      ("event statistic" :> Str("amount")) @@
      ("statistic bins" :>
          List(<<Frac(1, 10), Frac(2, 10), Frac(5, 10), Num(1), Num(2), Num(5),
                 Num(10), Num(20), Num(50), Num(100), Num(150), Num(200)>>)) @@
      ("dry events" :> Bool(FALSE)) @@
      ("dry bins" :> None) @@
      ("event thr" :> Frac(1, 10)) @@
      ("cond analysis" :> None) @@
      ("chunk dimension" :> Str("space")))) @@
  ("pdf" :> (
      [ vars |-> List(<<>>) ] @@
      ("resample resolution" :> None) @@
      ("pool data" :> Bool(FALSE)) @@
      ("bins" :> None) @@
      ("normalized" :> Bool(FALSE)) @@
      ("thr" :> None) @@
      ("cond analysis" :> None) @@
      ("dry event thr" :> None) @@
      ("chunk dimension" :> Str("space")))) @@
  ("percentile" :> (
      [ vars |-> List(<<>>) ] @@
      ("resample resolution" :> None) @@
      ("pool data" :> Bool(FALSE)) @@
      ("pctls" :> List(<<Num(95), Num(99)>>)) @@
      ("thr" :> None) @@
      ("cond analysis" :> None) @@
      ("chunk dimension" :> Str("space")))) @@
  ("Rxx" :> (
      [ vars |-> List(<<Str("pr")>>) ] @@
      ("resample resolution" :> None) @@
      ("pool data" :> Bool(FALSE)) @@
      ("normalize" :> Bool(FALSE)) @@
      ("thr" :> Num(1)) @@
      ("cond analysis" :> None) @@
      ("chunk dimension" :> Str("space")))) @@
  ("signal filtering" :> (
      [ vars |-> List(<<>>) ] @@
      ("resample resolution" :> None) @@
      ("pool data" :> Bool(FALSE)) @@
      ("filter" :> Str("lanczos")) @@
      ("cutoff type" :> Str("lowpass")) @@
      ("window" :> Num(61)) @@
      ("mode" :> Str("same")) @@
      ("1st cutoff" :> None) @@
      ("2nd cutoff" :> None) @@
      ("filter dim" :> Num(1)) @@
      ("thr" :> None) @@
      ("cond analysis" :> None) @@
      ("chunk dimension" :> Str("space"))))

\* return {k: stats_dict[k] for k in stats}: a name outside the table is a
\* KeyError.
default_stats_config(stats) ==
  IF stats \subseteq DOMAIN stats_dict
    THEN [status |-> "ok", value |-> [k \in stats |-> stats_dict[k]]]
    ELSE Raise("KeyError")

(***************************************************************************)
(* mod_stats_config                                                        *)
(***************************************************************************)
\* d[m] = v on a Python dict: the key is created when it is missing; the
\* statement raises no KeyError for m.
dict_setitem(d, m, v) == [x \in DOMAIN d \cup {m} |-> IF x = m THEN v ELSE d[x]]

\* stats_dd[k][m] = requested_stats[k][m] inside try/except KeyError: the
\* only subscript that reads an existing entry is stats_dd[k].
setitem_raises_KeyError(stats_dd, k, m) == k \notin DOMAIN stats_dd

RECURSIVE update_keys(_, _, _)
\* for m in requested_stats[k]: try: stats_dd[k][m] = ... except KeyError
update_keys(rec, over, todo) ==
  IF todo = {} THEN rec
  ELSE LET m == CHOOSE x \in todo : TRUE
       IN  update_keys(dict_setitem(rec, m, over[m]), over, todo \ {m})

mod_stats_config(requested_stats) ==
  LET dflt == default_stats_config(DOMAIN requested_stats) IN
  IF Raised(dflt) THEN [status |-> dflt.status, printed |-> {}]
  ELSE
    LET stats_dd == dflt.value
        isDefault(k) == requested_stats[k] = Str("default")
        failing(k) == IF isDefault(k) THEN {}
                      ELSE {m \in DOMAIN requested_stats[k].m :
                              setitem_raises_KeyError(stats_dd, k, m)}
    IN [ status |-> "ok",
         value |-> [k \in DOMAIN stats_dd |->
                      IF isDefault(k) THEN stats_dd[k]
                      ELSE update_keys(stats_dd[k], requested_stats[k].m,
                                       DOMAIN requested_stats[k].m \ failing(k))],
         printed |-> UNION {{<<k, m>> : m \in failing(k)} : k \in DOMAIN stats_dd} ]

(***************************************************************************)
(* Gridded data: one pixel's series of the variable, with its time axis    *)
(* in seconds.  NaN is the missing value.                                  *)
(***************************************************************************)
NaN == -999
isnan(x) == x = NaN

\* A masking that keeps only the values strictly above the bound.
where_gt(data, thr) ==
  [data EXCEPT !.vals =
     [i \in DOMAIN data.vals |->
        IF ~isnan(data.vals[i]) /\ data.vals[i] > thr THEN data.vals[i] ELSE NaN]]

\* data.where(data[var] >= thr): a new array; a value that is missing or
\* below the bound becomes missing.
where_ge(data, thr) ==
  [data EXCEPT !.vals =
     [i \in DOMAIN data.vals |->
        IF ~isnan(data.vals[i]) /\ data.vals[i] >= thr THEN data.vals[i] ELSE NaN]]

\* var in in_thr: membership in a dict's keys; a number is not iterable.
py_in(var, c) ==
  CASE c.kind = "dict" -> [status |-> "ok", value |-> var \in DOMAIN c.m]
    [] c.kind = "list" ->
         [status |-> "ok", value |-> \E i \in DOMAIN c.items : c.items[i] = Str(var)]
    [] OTHER -> Raise("TypeError")

\* in_thr = stat_config[stat]['thr']
\* if in_thr is not None: thr = None if var not in in_thr else in_thr[var]
\* else: thr = in_thr
lookup_thr(in_thr, var) ==
  IF in_thr /= None
    THEN LET isin == py_in(var, in_thr) IN
         IF Raised(isin) THEN isin
         ELSE IF isin.value
           THEN IF in_thr.kind = "dict"
                  THEN [status |-> "ok", thr |-> in_thr.m[var]]
                  ELSE Raise("TypeError")
           ELSE [status |-> "ok", thr |-> None]
    ELSE [status |-> "ok", thr |-> in_thr]

\* The same lookup in the kernels that also mask the data:
\* if var in in_thr: thr = in_thr[var]; data = data.where(data[var] >= thr)
mask_thr(data, in_thr, var) ==
  LET r == lookup_thr(in_thr, var) IN
  IF Raised(r) THEN r
  ELSE [status |-> "ok", thr |-> r.thr,
        data |-> IF r.thr = None THEN data ELSE where_ge(data, r.thr.v)]

(***************************************************************************)
(* Rxx                                                                     *)
(***************************************************************************)
RECURSIVE count_ge(_, _)
count_ge(vals, thr) ==
  IF vals = <<>> THEN 0
  ELSE (IF ~isnan(Head(vals)) /\ Head(vals) >= thr THEN 1 ELSE 0)
       + count_ge(Tail(vals), thr)

\* rcat.stats.climateindex.Rxx: the count of time steps at or above thr,
\* a fraction of the record length when normalize is set.
ci_Rxx(vals, thr, normalize) ==
  IF thr = None THEN Raise("TypeError")
  ELSE [status |-> "ok",
        value |-> IF normalize THEN Frac(count_ge(vals, thr.v), Len(vals))
                  ELSE Num(count_ge(vals, thr.v))]

Rxx(data, var, stat, stat_config) ==
  LET r == lookup_thr(stat_config[stat]["thr"], var) IN
  IF Raised(r) THEN r
  ELSE LET norm == stat_config[stat]["normalize"]
           frq == ci_Rxx(data.vals, r.thr, norm.b)
       IN IF Raised(frq) THEN frq
          ELSE [status |-> "ok", kernel |-> "Rxx", thr |-> r.thr,
                frq |-> frq.value,
                Description |-> <<"Rxx; frequency above threshold", r.thr, norm>>]

(***************************************************************************)
(* Strings whose characters the code inspects are sequences of characters  *)
(***************************************************************************)
Txt(cs) == [kind |-> "txt", cs |-> cs]

Digits == {"0", "1", "2", "3", "4", "5", "6", "7", "8", "9"}
isdigit(c) == c \in Digits
DigitVal(c) ==
  CASE c = "0" -> 0 [] c = "1" -> 1 [] c = "2" -> 2 [] c = "3" -> 3
    [] c = "4" -> 4 [] c = "5" -> 5 [] c = "6" -> 6 [] c = "7" -> 7
    [] c = "8" -> 8 [] c = "9" -> 9

RECURSIVE py_int(_)
\* int() of a string of decimal digits
py_int(cs) ==
  IF cs = <<>> THEN 0
  ELSE 10 * py_int(SubSeq(cs, 1, Len(cs) - 1)) + DigitVal(cs[Len(cs)])

RECURSIVE keep_chars(_, _)
\* [x for x, y in zip(tf, d) if y] (want = TRUE) or if not y (want = FALSE)
keep_chars(tf, want) ==
  IF tf = <<>> THEN <<>>
  ELSE (IF isdigit(Head(tf)) = want THEN <<Head(tf)>> ELSE <<>>)
       \o keep_chars(Tail(tf), want)

(***************************************************************************)
(* _get_freq                                                               *)
(***************************************************************************)
\* reduce() of an empty list, without an initial value, is a TypeError.
_get_freq(tf) ==
  LET digs == keep_chars(tf, TRUE)
      unit == keep_chars(tf, FALSE)
  IN IF digs = <<>> \/ unit = <<>> THEN Raise("TypeError")
     ELSE LET freq == py_int(digs) IN
          IF unit = <<"M">> THEN [status |-> "ok", freq |-> freq * 30, unit |-> <<"D">>]
          ELSE IF unit = <<"Y">>
            THEN [status |-> "ok", freq |-> freq * 365, unit |-> <<"D">>]
          ELSE IF unit[1] = "Q" THEN [status |-> "ok", freq |-> 90, unit |-> <<"D">>]
          ELSE [status |-> "ok", freq |-> freq, unit |-> unit]

\* pandas.to_timedelta(n, unit).total_seconds(): an unknown unit is a
\* ValueError.
to_timedelta_seconds(n, unit) ==
  CASE unit = <<"W">> -> [status |-> "ok", value |-> n * 604800]
    [] unit = <<"D">> -> [status |-> "ok", value |-> n * 86400]
    [] unit = <<"H">> -> [status |-> "ok", value |-> n * 3600]
    [] unit = <<"T">> -> [status |-> "ok", value |-> n * 60]
    [] unit = <<"S">> -> [status |-> "ok", value |-> n]
    [] OTHER -> Raise("ValueError")

(***************************************************************************)
(* moments                                                                 *)
(***************************************************************************)
Reductions == {"mean", "max", "min", "sum"}

RECURSIVE seq_sum(_)
seq_sum(q) == IF q = <<>> THEN 0 ELSE Head(q) + seq_sum(Tail(q))

SetMax(S) == CHOOSE x \in S : \A y \in S : y <= x
SetMin(S) == CHOOSE x \in S : \A y \in S : x <= y

\* A reduction over the valid (non-missing) values of a group, skipna
\* style: the mean is kept as the fraction sum/count; a group without a
\* valid value reduces to missing (its sum to 0).
reduce_valid(method, q) ==
  LET S == {q[i] : i \in DOMAIN q} IN
  IF q = <<>> THEN (IF method = "sum" THEN Num(0) ELSE Num(NaN))
  ELSE CASE method = "mean" -> Frac(seq_sum(q), Len(q))
         [] method = "sum" -> Num(seq_sum(q))
         [] method = "max" -> Num(SetMax(S))
         [] method = "min" -> Num(SetMin(S))

\* The valid values of the series at the selected indices.
valid_where(data, sel) ==
  LET idx == {i \in DOMAIN data.vals : i \in sel /\ ~isnan(data.vals[i])}
      RECURSIVE pick(_)
      pick(i) == IF i > Len(data.vals) THEN <<>>
                 ELSE (IF i \in idx THEN <<data.vals[i]>> ELSE <<>>) \o pick(i + 1)
  IN pick(1)

\* The calendar of the time axis: second 0 is 00:00 on Monday 1 January, and
\* every year has 365 days.
CumDays == <<31, 59, 90, 120, 151, 181, 212, 243, 273, 304, 334, 365>>
month_index(t) ==
  LET d == t \div 86400 IN
  12 * (d \div 365) + Cardinality({k \in 1..12 : CumDays[k] <= d % 365})

\* data[var].resample(time='<n><unit>').<method>('time').dropna('time', 'all')
\* A fixed-width unit gives bins of n units counted from the start of the
\* first day; M, Q and Y give bins of n calendar months, quarters and
\* years counted from the first one.  A bin without a valid value is
\* dropped.
resample_reduce(data, tf, method) ==
  LET n == py_int(keep_chars(tf, TRUE))
      unit == keep_chars(tf, FALSE)
      origin == (data.time[1] \div 86400) * 86400
      period(t) ==
        CASE unit = <<"M">> -> month_index(t)
          [] unit = <<"Y">> -> t \div (365 * 86400)
          [] unit[1] = "Q" -> month_index(t) \div 3
          [] OTHER -> (t - origin) \div to_timedelta_seconds(1, unit).value
      bin(i) == (period(data.time[i]) - period(data.time[1])) \div n
      keys == {bin(i) : i \in {j \in DOMAIN data.vals : ~isnan(data.vals[j])}}
  IN [k \in keys |->
        reduce_valid(method, valid_where(data, {i \in DOMAIN data.vals : bin(i) = k}))]

\* A comparison that resamples data already at the resolution asked for.
strictly_coarse(nsec, sec_resample) == nsec > sec_resample

\* if nsec >= sec_resample: the data are kept as they are
already_coarse(nsec, sec_resample) == nsec >= sec_resample

moments(data, var, stat, stat_config) ==
  LET _mstat == stat_config[stat]["moment stat"]
      mstat == IF _mstat.kind = "dict" THEN _mstat.m[var] ELSE _mstat
  IN
  \* mstat[0] = str(1) + mstat[0] unless mstat[0] is an int; a string has
  \* no item assignment.
  IF mstat.kind /= "list" THEN Raise("TypeError")
  ELSE
  LET m0 == IF mstat.items[1].kind = "num" THEN mstat.items[1]
            ELSE Txt(<<"1">> \o mstat.items[1].cs)
      m1 == mstat.items[2]
      t == mask_thr(data, stat_config[stat]["thr"], var)
  IN
  IF Raised(t) THEN t
  ELSE IF Len(data.time) < 2 THEN Raise("IndexError")
  ELSE
  LET nsec == data.time[2] - data.time[1]
      fq == IF m0.kind = "num" THEN Raise("TypeError") ELSE _get_freq(m0.cs)
  IN
  IF Raised(fq) THEN fq
  ELSE
  LET sec_resample == to_timedelta_seconds(fq.freq, fq.unit) IN
  IF Raised(sec_resample) THEN sec_resample
  ELSE
  LET descr == <<"Moment statistic", m0, m1, t.thr>> IN
  IF m0 = Txt(<<"a", "l", "l">>)
    \* eval("data.{}(dim='time', skipna=True)".format(mstat)) with the list
    \* mstat formatted into the expression
    THEN Raise("SyntaxError")
  ELSE IF already_coarse(nsec, sec_resample.value)
    THEN [status |-> "ok", kernel |-> "moments", branch |-> "keep", thr |-> t.thr,
          st_data |-> t.data, Description |-> descr]
  ELSE IF m1.s \notin Reductions THEN Raise("AttributeError")
  ELSE [status |-> "ok", kernel |-> "moments", branch |-> "resample", thr |-> t.thr,
        freq |-> m0, method |-> m1.s,
        st_data |-> resample_reduce(t.data, m0.cs, m1.s),
        Description |-> descr]

(***************************************************************************)
(* Rational arithmetic with the IEEE special values the kernels meet:      *)
(* <<n, d>> with d > 0 is n/d, <<0, 0>> is nan, <<1, 0>> and <<-1, 0>> are *)
(* +inf and -inf.  Rounding is not modelled.                               *)
(***************************************************************************)
RNaN == <<0, 0>>
R(n) == <<n, 1>>
Risnan(a) == a = RNaN
Sgn(n) == IF n > 0 THEN 1 ELSE IF n < 0 THEN -1 ELSE 0
RECURSIVE GCD(_, _)
GCD(a, b) == IF b = 0 THEN a ELSE GCD(b, a % b)
Abs(n) == IF n < 0 THEN -n ELSE n
\* n/d for d /= 0, in lowest terms with a positive denominator
RNorm(n, d) ==
  LET g == GCD(Abs(n), Abs(d))
      sg == IF d < 0 THEN -1 ELSE 1
  IN <<sg * (n \div g), sg * (d \div g)>>
RMul(a, b) ==
  IF Risnan(a) \/ Risnan(b) THEN RNaN
  ELSE IF a[2] = 0 \/ b[2] = 0
    THEN (IF a[1] = 0 \/ b[1] = 0 THEN RNaN ELSE <<Sgn(a[1]) * Sgn(b[1]), 0>>)
  ELSE RNorm(a[1] * b[1], a[2] * b[2])
RDiv(a, b) ==
  IF Risnan(a) \/ Risnan(b) THEN RNaN
  ELSE IF b[2] = 0 THEN (IF a[2] = 0 THEN RNaN ELSE R(0))
  ELSE IF a[2] = 0 THEN <<a[1] * (IF b[1] < 0 THEN -1 ELSE 1), 0>>
  ELSE IF b[1] = 0 THEN (IF a[1] = 0 THEN RNaN ELSE <<Sgn(a[1]), 0>>)
  ELSE RNorm(a[1] * b[2], a[2] * b[1])
RAdd(a, b) ==
  IF Risnan(a) \/ Risnan(b) THEN RNaN
  ELSE IF a[2] = 0 /\ b[2] = 0 THEN (IF a[1] = b[1] THEN a ELSE RNaN)
  ELSE IF a[2] = 0 THEN a
  ELSE IF b[2] = 0 THEN b
  ELSE RNorm(a[1] * b[2] + b[1] * a[2], a[2] * b[2])
REq(a, b) ==
  /\ ~Risnan(a) /\ ~Risnan(b)
  /\ IF a[2] = 0 \/ b[2] = 0 THEN a = b ELSE a[1] * b[2] = b[1] * a[2]

RECURSIVE Rsum(_)
\* np.sum: a nan entry makes the sum nan
Rsum(q) == IF q = <<>> THEN R(0) ELSE RAdd(Head(q), Rsum(Tail(q)))

RECURSIVE Rnansum(_)
\* np.nansum: nan entries count as zero
Rnansum(q) ==
  IF q = <<>> THEN R(0)
  ELSE IF Risnan(Head(q)) THEN Rnansum(Tail(q))
  ELSE RAdd(Head(q), Rnansum(Tail(q)))

(***************************************************************************)
(* _pdf_calc                                                               *)
(***************************************************************************)
\* np.digitize(x, bins) for increasing bins: the i with
\* bins[i-1] <= x < bins[i], 0 below the first edge, len(bins) from the last.
digitize(x, bins) == Cardinality({i \in DOMAIN bins : bins[i] <= x})

\* np.histogram(indata, bins=bins, density=True)[0]: the last bin also
\* holds its right edge; count / (total in range * bin width).
histogram_density(indata, bins) ==
  LET nb == Len(bins) - 1
      inbin(i, x) == /\ bins[i] <= x
                     /\ IF i = nb THEN x <= bins[i + 1] ELSE x < bins[i + 1]
      cnt(i) == Len(SelectSeq(indata, LAMBDA x : inbin(i, x)))
      total == seq_sum([i \in 1..nb |-> cnt(i)])
  IN [i \in 1..nb |-> RDiv(R(cnt(i)), R(total * (bins[i + 1] - bins[i])))]

\* _compute(data1d, bins, lbins, norm, thr, dry_thr); thr and dry_thr are
\* None or numbers, bins is the sequence of edges.
_pdf_compute(data1d, bins, lbins, norm, thr, dry_thr) ==
  IF \A i \in DOMAIN data1d : isnan(data1d[i])
    THEN [i \in 1..(lbins + 1) |-> RNaN]
  ELSE
    LET clean == SelectSeq(data1d, LAMBDA x : ~isnan(x))
        dry_events == IF dry_thr /= None
                        THEN Num(Len(SelectSeq(clean, LAMBDA x : x < dry_thr.v)))
                        ELSE None
        indata == IF thr /= None THEN SelectSeq(clean, LAMBDA x : x >= thr.v)
                  ELSE clean
    IN IF norm
         THEN
           LET binned == [i \in DOMAIN indata |-> digitize(indata[i], bins)]
               arr(bint) == SelectSeq(indata, LAMBDA x : digitize(x, bins) = bint)
               present(bint) == \E i \in DOMAIN binned : binned[i] = bint
               \* Mean value for each bin, 0.0 for an empty one
               means == [bint \in 1..(Len(bins) - 1) |->
                           IF present(bint)
                             THEN RDiv(R(seq_sum(arr(bint))), R(Len(arr(bint))))
                             ELSE R(0)]
               \* Occurrences and frequencies
               ocrns == [bint \in 1..(Len(bins) - 1) |->
                           IF present(bint) THEN Len(arr(bint)) ELSE 0]
               frequency == [b \in DOMAIN ocrns |->
                               RDiv(R(ocrns[b]), R(seq_sum(ocrns)))]
               C == [b \in DOMAIN ocrns |-> RMul(frequency[b], means[b])]
               hdata == [b \in DOMAIN C |-> RDiv(C[b], Rnansum(C))]
           IN <<dry_events>> \o hdata
         ELSE <<dry_events>> \o histogram_density(indata, bins)

\* The value of the local hist when the body of _pdf_calc has run (the
\* callers pass the edges; keepdims selects np.apply_along_axis over the
\* same _compute).
_pdf_calc_hist(data, bins, norm, thr, dry_event_thr) ==
  LET inbins == bins
      lbins == Len(inbins) - 1
  IN _pdf_compute(data, inbins, lbins, norm, thr, dry_event_thr)

\* _pdf_calc ends after the assignment to hist: there is no return
\* statement, so the call evaluates to None.
_pdf_calc(data, bins, norm, thr, dry_event_thr) == None

(***************************************************************************)
(* diurnal_cycle                                                           *)
(***************************************************************************)
hour_of(t) == (t \div 3600) % 24

\* _check_hours: with any time stamp past a whole minute of its hour, all
\* stamps move up to the whole hour.
_check_hours(ds) ==
  IF \E i \in DOMAIN ds.time : (ds.time[i] % 3600) \div 60 > 0
    THEN [ds EXCEPT !.time =
            [i \in DOMAIN ds.time |-> ((ds.time[i] + 3599) \div 3600) * 3600]]
    ELSE ds

\* 'percentile' in tstat
contains(cs, pat) ==
  \E i \in 1..(Len(cs) - Len(pat) + 1) : SubSeq(cs, i, i + Len(pat) - 1) = pat

\* The usage message of a 'percentile' stat method without its argument
errmsg ==
  "Make sure percentile(s) in stat method is given correctly; i.e. with a white space e.g. 'percentile 95'"

\* tstat.partition(' ')[2]: what follows the first white space
after_space(cs) ==
  IF \E i \in DOMAIN cs : cs[i] = " "
    THEN LET i == CHOOSE j \in DOMAIN cs :
                    cs[j] = " " /\ \A k \in 1..(j - 1) : cs[k] /= " "
         IN SubSeq(cs, i + 1, Len(cs))
    ELSE <<>>

\* q = [float(q)] if q.isdigit() else eval(q): a string of digits gives a
\* one-element list; eval of a decimal literal gives a float, which has no
\* len(); any other text here is not an expression that evaluates.
parse_q(q) ==
  IF \A i \in DOMAIN q : isdigit(q[i])
    THEN [status |-> "ok", value |-> List(<<Num(py_int(q))>>)]
  ELSE IF \E i \in DOMAIN q :
            /\ q[i] = "."
            /\ \A j \in DOMAIN q \ {i} : isdigit(q[j])
    THEN [status |-> "ok", value |-> [kind |-> "float", cs |-> q]]
  ELSE Raise("SyntaxError")

hours_in(data) == {hour_of(data.time[i]) : i \in DOMAIN data.time}

\* The values of the series, missing ones included, at hour h of the day.
at_hour(data, h) ==
  LET RECURSIVE pick(_)
      pick(i) == IF i > Len(data.vals) THEN <<>>
                 ELSE (IF hour_of(data.time[i]) = h THEN <<data.vals[i]>> ELSE <<>>)
                      \o pick(i + 1)
  IN pick(1)

\* data.groupby('time.hour').<method>('time')
groupby_hour(data, method) ==
  [h \in hours_in(data) |->
     LET at == {i \in DOMAIN data.time : hour_of(data.time[i]) = h} IN
     IF method = "count" THEN Num(Len(valid_where(data, at)))
     ELSE reduce_valid(method, valid_where(data, at))]

\* np.array([(data['time.hour'].values == h).sum() for h in np.arange(24)])
totdays_of(data) ==
  [h \in 0..23 |-> Cardinality({i \in DOMAIN data.time : hour_of(data.time[i]) = h})]

w_percentile == <<"p", "e", "r", "c", "e", "n", "t", "i", "l", "e">>
w_pdf == <<"p", "d", "f">>
w_mean == <<"m", "e", "a", "n">>
w_max == <<"m", "a", "x">>

\* The attribute a method-name string names in an eval'ed expression.
method_name(cs) ==
  CASE cs = w_mean -> "mean"
    [] cs = w_max -> "max"
    [] cs = <<"m", "i", "n">> -> "min"
    [] cs = <<"s", "u", "m">> -> "sum"
    [] OTHER -> "unknown"

\* np.arange(start, stop, step) for integer arguments with step > 0
\* An arange that drops the last edge when step does not divide the range.
arange_floor(start, stop, step) ==
  [i \in 1..(IF stop > start THEN (stop - start) \div step ELSE 0) |->
     start + (i - 1) * step]

arange(start, stop, step) ==
  [i \in 1..(IF stop > start THEN (stop - start + step - 1) \div step ELSE 0) |->
     start + (i - 1) * step]

\* The part of diurnal_cycle up to the only statement that binds dcycle in
\* each branch: the result holds the bound dcycle (bound is FALSE when the
\* branch binds st_data instead), or it is the exception.
diurnal_branch(data, var, cfg, thr) ==
  LET dcycle_stat == cfg["dcycle stat"] IN
  IF dcycle_stat = Str("amount")
    THEN
      LET tstat == cfg["stat method"].cs IN
      IF contains(tstat, w_percentile)
        THEN LET q == after_space(tstat) IN
             IF q = <<>> THEN RaiseMsg("ValueError", errmsg)
             ELSE LET pq == parse_q(q) IN
                  IF Raised(pq) THEN pq
                  ELSE IF pq.value.kind /= "list" THEN Raise("TypeError")
                  ELSE [status |-> "ok", bound |-> FALSE,
                        st_data |-> [axes |-> <<"pctls", "hour">>,
                                     pctls |-> pq.value],
                        statnm |-> <<"Amount", tstat, thr>>]
      ELSE IF contains(tstat, w_pdf)
        THEN LET kw == cfg["method kwargs"] IN
             IF kw.kind /= "dict" THEN Raise("TypeError")
             ELSE IF "bins" \notin DOMAIN kw.m THEN Raise("AssertionError")
             ELSE LET bin_r == kw.m["bins"]
                      bins == arange(bin_r[1], bin_r[2], bin_r[3])
                      lbins == Len(bins) - 1
                  IN [status |-> "ok", bound |-> TRUE,
                      dcycle |-> [axes |-> <<"bins", "hour">>,
                                  sizes |-> [bins |-> lbins + 1],
                                  coords |-> [bins |-> bins],
                                  \* what evaluating the kernel yields per hour
                                  values |-> [h \in hours_in(data) |->
                                     _pdf_calc(at_hour(data, h), bins, FALSE, thr, None)]],
                      statnm |-> <<"Amount", tstat, thr>>]
      ELSE IF method_name(tstat) \notin Reductions THEN Raise("AttributeError")
      ELSE [status |-> "ok", bound |-> TRUE,
            dcycle |-> [axes |-> <<"hour">>,
                        values |-> groupby_hour(data, method_name(tstat))],
            statnm |-> <<"Amount", tstat, thr>>]
  ELSE IF dcycle_stat = Str("frequency")
    THEN IF thr = None THEN Raise("AssertionError")
         ELSE [status |-> "ok", bound |-> TRUE,
               dcycle |-> [axes |-> <<"hour">>,
                           values |-> groupby_hour(data, "count")],
               totdays |-> totdays_of(data),
               statnm |-> <<"Frequency", "counts", thr>>]
  ELSE Raise("SystemExit")

diurnal_cycle(data, var, stat, stat_config) ==
  LET cfg == stat_config[stat]
      t == mask_thr(data, cfg["thr"], var)
  IN
  IF Raised(t) THEN t
  ELSE
  LET hdata == _check_hours(t.data)
      b == diurnal_branch(hdata, var, cfg, t.thr)
  IN
  IF Raised(b) THEN b
  \* dcycle = dcycle.chunk({'hour': -1}) reads dcycle
  ELSE IF ~b.bound THEN Raise("UnboundLocalError")
  ELSE
  LET _hrs == cfg["hours"]
      hrs == IF _hrs /= None THEN {_hrs.items[i] : i \in DOMAIN _hrs.items}
             ELSE DOMAIN b.dcycle.values
  IN
  \* dcycle.sel(hour=hrs): an hour the cycle does not hold is a KeyError
  IF ~(hrs \subseteq DOMAIN b.dcycle.values) THEN Raise("KeyError")
  ELSE
  LET sel == [b.dcycle EXCEPT !.values = [h \in hrs |-> b.dcycle.values[h]]] IN
  [status |-> "ok", kernel |-> "diurnal_cycle", thr |-> t.thr,
   st_data |-> IF cfg["dcycle stat"] = Str("frequency")
                 THEN sel @@ [ndays_per_hour |-> b.totdays]
                 ELSE sel,
   Description |-> <<"Diurnal cycle">> \o b.statnm]

(***************************************************************************)
(* dcycle_harmonic_fit                                                     *)
(***************************************************************************)
\* any(np.isnan(data1d))
any_isnan(data1d) == \E i \in DOMAIN data1d : data1d[i] = Num(NaN)

\* A _compute whose missing branch repeats the missing value 4 times only.
_harmonic_compute_nan4(data1d) ==
  IF any_isnan(data1d) THEN [i \in 1..4 |-> Num(NaN)]
  ELSE [i \in 1..204 |->
          IF i <= 4 THEN [param |-> <<"c1", "p1", "c2", "p2">>[i], of |-> data1d]
          ELSE [r |-> i - 4]]

\* _harmonic_linefit._compute on one pixel's hourly values: with a missing
\* value np.repeat(np.nan, 204) and no fit; otherwise
\* np.hstack(((c1, p1, c2, p2), r)) with r the curve at the 200 points of
\* np.linspace(0, 23, 200), the least-squares fit itself being scipy's.
_harmonic_compute(data1d) ==
  IF any_isnan(data1d) THEN [i \in 1..204 |-> Num(NaN)]
  ELSE [i \in 1..204 |->
          IF i <= 4 THEN [param |-> <<"c1", "p1", "c2", "p2">>[i], of |-> data1d]
          ELSE [r |-> i - 4]]

\* _harmonic_linefit(data, keepdims=keepdims, axis=-1): data is one series
\* (ndim 1) or a block of pixels (ndim 2).  The result holds, beside the
\* returned array, the pixels scipy's curve_fit was called for and what
\* was printed.
_harmonic_linefit(data, keepdims) ==
  LET rows == IF data.ndim = 1 THEN <<data.vals>> ELSE data.rows
      out == [p \in DOMAIN rows |-> _harmonic_compute(rows[p])]
      fits == {p \in DOMAIN rows : ~any_isnan(rows[p])}
      said == IF fits /= DOMAIN rows THEN {"Data missing/masked!"} ELSE {}
  IN
  IF keepdims
    \* np.apply_along_axis(_compute, axis, data, var)
    THEN [status |-> "ok", value |-> out, fits |-> fits, printed |-> said]
  \* assert data1d.ndim == 1
  ELSE IF data.ndim /= 1 THEN [status |-> "AssertionError", printed |-> {}]
  ELSE [status |-> "ok", value |-> out, fits |-> fits, printed |-> said]

dcycle_harmonic_fit(data, var, stat, stat_config) ==
  LET cfg == stat_config[stat]
      dcycle_stat == cfg["dcycle stat"]
      t == mask_thr(data, cfg["thr"], var)
  IN
  IF Raised(t) THEN t
  ELSE IF dcycle_stat /= Str("amount") /\ dcycle_stat /= Str("frequency")
    THEN Raise("SystemExit")
  ELSE IF dcycle_stat = Str("frequency") /\ t.thr = None THEN Raise("AssertionError")
  ELSE
  LET dcycle == IF dcycle_stat = Str("amount")
                  THEN groupby_hour(_check_hours(t.data), "mean")
                  ELSE groupby_hour(_check_hours(where_ge(t.data, t.thr.v)), "count")
      hourly == [i \in 1..Cardinality(DOMAIN dcycle) |->
                   dcycle[CHOOSE h \in DOMAIN dcycle :
                            Cardinality({g \in DOMAIN dcycle : g < h}) = i - 1]]
      statnm == IF dcycle_stat = Str("amount") THEN <<"Amount", t.thr>>
                ELSE <<"Frequency", t.thr>>
      base == [axes |-> <<"fit">>, sizes |-> [fit |-> 204],
               dcycle |-> dcycle, fit |-> _harmonic_compute(hourly)]
  IN
  [status |-> "ok", kernel |-> "dcycle_harmonic_fit", thr |-> t.thr,
   st_data |-> IF dcycle_stat = Str("frequency")
                 THEN base @@ [ndays_per_hour |->
                                 totdays_of(_check_hours(where_ge(t.data, t.thr.v)))]
                 ELSE base,
   Description |-> <<"Harmonic fit of diurnal cycle">> \o statnm]

(***************************************************************************)
(* filtering                                                               *)
(***************************************************************************)
\* 1/x for a configuration value: None has no division, 0 divides by zero.
reciprocal(x) ==
  IF x.kind /= "num" THEN Raise("TypeError")
  ELSE IF x.v = 0 THEN Raise("ZeroDivisionError")
  ELSE [status |-> "ok", value |-> Frac(1, x.v)]

\* rcat.stats.convolve.lanczos_filter(window, 1/cutoff, 1/cutoff2, ftype):
\* one weight per point of the window.
lanczos_filter(window, fc1, fc2, ftype) ==
  [size |-> window, cutoffs |-> <<fc1, fc2>>, ftype |-> ftype]

\* A declared length that forgets the + 1 of a 'valid' convolution.
out_dim_short(mode, size, window) ==
  IF mode = Str("valid") \/ mode = None THEN size - window ELSE size

\* if mode == 'valid' or mode is None: out_dim = data.time.size - window + 1
\* else: out_dim = data.time.size
out_dim_of(mode, size, window) ==
  IF mode = Str("valid") \/ mode = None THEN size - window + 1 ELSE size

filtering(data, var, stat, stat_config) ==
  LET cfg == stat_config[stat]
      ftype == cfg["cutoff type"]
      filt == cfg["filter"]
      window == cfg["window"].v
      mode == cfg["mode"]
      cutoff == cfg["1st cutoff"]
      cutoff2 == cfg["2nd cutoff"]
      filt_dim == cfg["filter dim"]
  IN
  IF window % 2 /= 1 THEN Raise("AssertionError")
  ELSE IF ftype = Str("bandpass") /\ cutoff2 = None THEN Raise("AssertionError")
  ELSE
  LET t == mask_thr(data, cfg["thr"], var) IN
  IF Raised(t) THEN t
  ELSE IF filt /= Str("lanczos") THEN Raise("SystemExit")
  ELSE IF Raised(reciprocal(cutoff)) THEN reciprocal(cutoff)
  ELSE IF Raised(reciprocal(cutoff2)) THEN reciprocal(cutoff2)
  ELSE
  LET wgts == lanczos_filter(window, reciprocal(cutoff).value,
                             reciprocal(cutoff2).value, ftype)
      out_dim == out_dim_of(mode, Len(t.data.time), window)
  IN
  IF filt_dim /= Num(1) THEN Raise("SystemExit")
  ELSE [status |-> "ok", kernel |-> "filtering", thr |-> t.thr, wgts |-> wgts,
        st_data |-> [axes |-> <<"filtered">>, sizes |-> [filtered |-> out_dim]],
        Description |-> <<"Convolved data", filt_dim, filt, ftype, cutoff, cutoff2,
                          cfg["window"]>>]

(***************************************************************************)
(* seasonal_cycle, annual_cycle, percentile                                *)
(***************************************************************************)
\* _percentile_func(arr, axis, q, thr): with a threshold the values below
\* it are overwritten with nan in arr itself (arr[arr < thr] = np.nan)
\* before np.nanpercentile runs; arr_after is the caller's array afterwards.
_percentile_func(arr, q, thr) ==
  LET masked == IF thr /= None
                  THEN [i \in DOMAIN arr |->
                          IF ~isnan(arr[i]) /\ arr[i] < thr.v THEN NaN ELSE arr[i]]
                  ELSE arr
  IN [arr_after |-> masked, q |-> q,
      of |-> SelectSeq(masked, LAMBDA x : ~isnan(x))]

month_of(t) == (month_index(t) % 12) + 1
season_of(t) ==
  CASE month_of(t) \in {12, 1, 2} -> "DJF"
    [] month_of(t) \in {3, 4, 5} -> "MAM"
    [] month_of(t) \in {6, 7, 8} -> "JJA"
    [] OTHER -> "SON"

\* data.groupby(<key>).<method>('time') for a calendar key
groupby_key(data, keys, method) ==
  [g \in {keys[i] : i \in DOMAIN data.time} |->
     reduce_valid(method, valid_where(data, {i \in DOMAIN data.time : keys[i] = g}))]

\* tstat.split(' ')[1]
second_word(cs) ==
  LET rest == after_space(cs) IN
  IF ~(\E i \in DOMAIN cs : cs[i] = " ") THEN Raise("IndexError")
  ELSE IF \E i \in DOMAIN rest : rest[i] = " "
    THEN [status |-> "ok",
          value |-> SubSeq(rest, 1, (CHOOSE j \in DOMAIN rest :
                      rest[j] = " " /\ \A k \in 1..(j - 1) : rest[k] /= " ") - 1)]
    ELSE [status |-> "ok", value |-> rest]

seasonal_cycle(data, var, stat, stat_config) ==
  LET tstat == stat_config[stat]["stat method"].cs
      t == mask_thr(data, stat_config[stat]["thr"], var)
  IN
  IF Raised(t) THEN t
  ELSE IF contains(tstat, w_percentile)
    THEN LET w == second_word(tstat) IN
         IF Raised(w) THEN w
         \* float(<text>)
         ELSE IF w.value = <<>> \/ Raised(parse_q(w.value)) THEN Raise("ValueError")
         ELSE [status |-> "ok", kernel |-> "seasonal_cycle", thr |-> t.thr,
               st_data |-> [axes |-> <<"season">>, q |-> w.value,
                            season |-> <<"DJF", "MAM", "JJA", "SON">>],
               Description |-> <<"Seasonal cycle", tstat, t.thr>>]
  ELSE IF method_name(tstat) \notin Reductions THEN Raise("AttributeError")
  ELSE [status |-> "ok", kernel |-> "seasonal_cycle", thr |-> t.thr,
        st_data |-> [axes |-> <<"season">>,
                     season |-> <<"DJF", "MAM", "JJA", "SON">>,
                     values |-> groupby_key(t.data, [i \in DOMAIN t.data.time |-> season_of(t.data.time[i])], method_name(tstat))],
        Description |-> <<"Seasonal cycle", tstat, t.thr>>]

annual_cycle(data, var, stat, stat_config) ==
  LET tstat == stat_config[stat]["stat method"].cs
      t == mask_thr(data, stat_config[stat]["thr"], var)
  IN
  IF Raised(t) THEN t
  ELSE IF contains(tstat, w_percentile)
    THEN LET q == after_space(tstat) IN
         IF q = <<>> THEN RaiseMsg("ValueError", errmsg)
         ELSE LET pq == parse_q(q) IN
              IF Raised(pq) THEN pq
              ELSE IF pq.value.kind /= "list" THEN Raise("TypeError")
              ELSE [status |-> "ok", kernel |-> "annual_cycle", thr |-> t.thr,
                    st_data |-> [axes |-> <<"pctls", "month">>,
                                 sizes |-> [pctls |-> Len(pq.value.items)],
                                 pctls |-> pq.value],
                    Description |-> <<"Annual cycle", tstat, t.thr>>]
  ELSE IF method_name(tstat) \notin Reductions THEN Raise("AttributeError")
  ELSE [status |-> "ok", kernel |-> "annual_cycle", thr |-> t.thr,
        st_data |-> [axes |-> <<"month">>,
                     values |-> groupby_key(t.data, [i \in DOMAIN t.data.time |-> month_of(t.data.time[i])], method_name(tstat))],
        Description |-> <<"Annual cycle", tstat, t.thr>>]

percentile(data, var, stat, stat_config) ==
  LET r == lookup_thr(stat_config[stat]["thr"], var) IN
  IF Raised(r) THEN r
  ELSE LET pctls == stat_config[stat]["pctls"]
           lpctls == IF pctls.kind /= "list" THEN List(<<pctls>>) ELSE pctls
       IN [status |-> "ok", kernel |-> "percentile", thr |-> r.thr,
           st_data |-> [axes |-> <<"pctls">>,
                        sizes |-> [pctls |-> Len(lpctls.items)],
                        percentiles |-> lpctls,
                        pixel |-> _percentile_func(data.vals, lpctls, r.thr)],
           Description |-> <<"Percentile", lpctls, r.thr>>]

(***************************************************************************)
(* freq_int_dist, asop, eda_calc                                           *)
(***************************************************************************)
\* The option of a variable in an option that is None or a dict per
\* variable: None if var not in opt else opt[var].
per_var(opt, var) ==
  IF opt /= None
    THEN LET isin == py_in(var, opt) IN
         IF Raised(isin) THEN isin
         ELSE [status |-> "ok", value |-> IF isin.value THEN opt.m[var] ELSE None]
    ELSE [status |-> "ok", value |-> opt]

freq_int_dist(data, var, stat, stat_config) ==
  LET cfg == stat_config[stat]
      has_bins == py_in(var, cfg["bins"])
  IN
  \* if var not in stat_config[stat]['bins']
  IF Raised(has_bins) THEN has_bins
  ELSE
  LET valid == SelectSeq(data.vals, LAMBDA x : ~isnan(x))
      S == {valid[i] : i \in DOMAIN valid}
      \* min/max with skipna of an all-missing series is missing
      bins == IF ~has_bins.value
                THEN [kind |-> "linspace",
                      start |-> IF S = {} THEN NaN ELSE SetMin(S),
                      stop |-> IF S = {} THEN NaN ELSE SetMax(S),
                      num |-> 20]
                ELSE [kind |-> "edges",
                      edges |-> arange(cfg["bins"].m[var][1], cfg["bins"].m[var][2],
                                       cfg["bins"].m[var][3])]
      lbins == (IF bins.kind = "linspace" THEN 20 ELSE Len(bins.edges)) - 1
      thr == per_var(cfg["thr"], var)
      dry_thr == per_var(cfg["dry event thr"], var)
      normalized == cfg["normalized"]
  IN
  IF Raised(thr) THEN thr
  ELSE IF Raised(dry_thr) THEN dry_thr
  ELSE
  LET norm == IF normalized.kind = "bool" THEN normalized
              ELSE IF var \notin DOMAIN normalized.m THEN Bool(FALSE)
              ELSE normalized.m[var]
      \* negative precipitation counts as zero
      vals == IF var = "pr"
                THEN [i \in DOMAIN data.vals |->
                        IF ~isnan(data.vals[i]) /\ data.vals[i] < 0 THEN 0
                        ELSE data.vals[i]]
                ELSE data.vals
  IN [status |-> "ok", kernel |-> "freq_int_dist", thr |-> thr.value,
      st_data |-> [axes |-> <<"bins">>, sizes |-> [bins |-> lbins + 1],
                   bin_edges |-> bins,
                   pixel |-> IF bins.kind = "edges"
                               THEN _pdf_calc(vals, bins.edges, norm.b, thr.value,
                                              dry_thr.value)
                               ELSE None],
      Description |-> <<"PDF", thr.value, norm>>]

asop(data, var, stat, stat_config) ==
  LET nr == stat_config[stat]["nr_bins"]
      nr_bins == IF nr = None THEN 50 ELSE nr.v
      \* bins = np.insert([ASoP.bins_calc(n) for n in nr_bins], 0, 0.0)
      lbins == (nr_bins + 1) - 1
      r == lookup_thr(stat_config[stat]["thr"], var)
  IN IF Raised(r) THEN r
     ELSE [status |-> "ok", kernel |-> "asop", thr |-> r.thr,
           st_data |-> [axes |-> <<"factors", "bins">>,
                        sizes |-> [factors |-> 2, bins |-> lbins],
                        factors |-> <<"C", "FC">>],
           Description |-> <<"ASoP analysis", r.thr>>]

\* np.array(x).size for a list or an arange
size_of(x) == IF x.kind = "arange" THEN x.stop - x.start ELSE Len(x.items)

eda_calc(data, var, stat, stat_config) ==
  LET cfg == stat_config[stat]
      event_stat == cfg["event statistic"]
      dur_bins == cfg["duration bins"]
      st_bins == cfg["statistic bins"]
      dry == cfg["dry events"]
      thr == cfg["event thr"]
  IN
  \* dur_bins.size and st_bins.size of None
  IF dur_bins = None \/ st_bins = None THEN Raise("AttributeError")
  ELSE [status |-> "ok", kernel |-> "eda_calc", thr |-> thr,
        st_data |-> [axes |-> <<"frequency", "duration">>,
                     sizes |-> [frequency |-> size_of(st_bins) - 1,
                                duration |-> IF dry.b THEN size_of(dur_bins) + 1
                                             ELSE size_of(dur_bins)]],
        Description |-> <<"EDA analysis", event_stat, thr>>]

(***************************************************************************)
(* _stats and calc_statistics                                              *)
(***************************************************************************)
\* The table p: statistic name -> function
p_table ==
  ("moments" :> "moments") @@
  ("seasonal cycle" :> "seasonal_cycle") @@
  ("annual cycle" :> "annual_cycle") @@
  ("percentile" :> "percentile") @@
  ("diurnal cycle" :> "diurnal_cycle") @@
  ("dcycle harmonic" :> "dcycle_harmonic_fit") @@
  ("pdf" :> "freq_int_dist") @@
  ("asop" :> "asop") @@
  ("eda" :> "eda_calc") @@
  ("Rxx" :> "Rxx") @@
  ("signal filtering" :> "filtering")

\* A lookup whose table holds seasonal_cycle under 'annual cycle' too.
_stats_shared_cycle(stat) ==
  IF stat \in DOMAIN p_table
    THEN [status |-> "ok",
          value |-> IF stat = "annual cycle" THEN "seasonal_cycle" ELSE p_table[stat]]
    ELSE Raise("KeyError")

\* return p[stat]
_stats(stat) ==
  IF stat \in DOMAIN p_table THEN [status |-> "ok", value |-> p_table[stat]]
  ELSE Raise("KeyError")

\* The call f(data, var, stat, stat_config) of the function named f.
call_kernel(f, data, var, stat, stat_config) ==
  CASE f = "moments" -> moments(data, var, stat, stat_config)
    [] f = "seasonal_cycle" -> seasonal_cycle(data, var, stat, stat_config)
    [] f = "annual_cycle" -> annual_cycle(data, var, stat, stat_config)
    [] f = "percentile" -> percentile(data, var, stat, stat_config)
    [] f = "diurnal_cycle" -> diurnal_cycle(data, var, stat, stat_config)
    [] f = "dcycle_harmonic_fit" -> dcycle_harmonic_fit(data, var, stat, stat_config)
    [] f = "freq_int_dist" -> freq_int_dist(data, var, stat, stat_config)
    [] f = "asop" -> asop(data, var, stat, stat_config)
    [] f = "eda_calc" -> eda_calc(data, var, stat, stat_config)
    [] f = "Rxx" -> Rxx(data, var, stat, stat_config)
    [] f = "filtering" -> filtering(data, var, stat, stat_config)

\* stat_data = _stats(stat)(data, var, stat, stat_config); return stat_data
\* The result carries the list of the kernel calls made.
calc_statistics(data, var, stat, stat_config) ==
  LET f == _stats(stat) IN
  IF Raised(f) THEN [ret |-> f, calls |-> <<>>]
  ELSE [ret |-> call_kernel(f.value, data, var, stat, stat_config),
        calls |-> <<[kernel |-> f.value, args |-> <<data, var, stat, stat_config>>]>>]

(***************************************************************************)
(* Inputs of the resolver                                                  *)
(***************************************************************************)
MaxRequested == 1

StatNames == DOMAIN stats_dict
OverrideKeys == {"thr", "pool data", "no such key"}
OverrideValues == {Num(5), Bool(TRUE)}
Overrides ==
  {Str("default")} \cup
  {Dict(f) : f \in UNION {[ks -> OverrideValues] : ks \in SUBSET OverrideKeys}}
Requests ==
  UNION {[ks -> Overrides] :
           ks \in {s \in SUBSET StatNames : Cardinality(s) \in 1..MaxRequested}}

(***************************************************************************)
(* Inputs of the kernels                                                   *)
(***************************************************************************)
SeriesLen == 3

Vars == {"pr", "tas"}
ThrOptions == {None, Num(5), Dict([pr |-> Num(5)])}

\* A time axis of SeriesLen stamps from a start in steps of a fixed length.
TimeAxis(start, step) == [i \in 1..SeriesLen |-> start + (i - 1) * step]
Series(values) == [1..SeriesLen -> values]
Datas(axes, values) == {[time |-> t, vals |-> v] : t \in axes, v \in Series(values)}

HourAxes == {TimeAxis(0, 3600), TimeAxis(1800, 3600), TimeAxis(0, 86400)}
StepAxes == {TimeAxis(0, 3600), TimeAxis(0, 21600), TimeAxis(0, 86400),
             TimeAxis(0, 30 * 86400), TimeAxis(0, 100 * 86400)}
Obs == {0, 5, 9, NaN}
RampData == [time |-> TimeAxis(0, 3600), vals |-> [i \in 1..SeriesLen |-> i]]

\* The configuration of one statistic: its defaults with some options set.
config_of(stat, options) ==
  stat :> update_keys(stats_dict[stat], options, DOMAIN options)

FreqTokens ==
  {<<"D">>, <<"H">>, <<"6", "H">>, <<"M">>, <<"Y">>, <<"2", "Q">>, <<"Q", "S">>,
   <<"a", "l", "l">>, <<"X">>, <<"5">>}
MomentStats ==
  {List(<<Txt(tf), Str(m)>>) : tf \in FreqTokens, m \in {"mean", "max"}}
  \cup {Dict([pr |-> List(<<Txt(<<"D">>), Str("sum")>>),
              tas |-> List(<<Txt(<<"H">>), Str("median")>>)]),
        List(<<Num(3), Str("mean")>>), Txt(<<"a", "l", "l">>)}

\* (start, stop, step) of a bin specification
BinSpecs == {<<0, 10, 5>>, <<0, 10, 3>>, <<0, 9, 3>>}

DiurnalOptions ==
  {("dcycle stat" :> Str("amount")) @@ ("stat method" :> Txt(m)) :
      m \in {w_mean, w_max, w_percentile \o <<" ", "9", "5">>, w_percentile,
             w_percentile \o <<" ", "9", ".", "5">>, <<"s", "t", "d">>}}
  \cup {("dcycle stat" :> Str("amount")) @@ ("stat method" :> Txt(w_pdf)) @@
        ("method kwargs" :> kw) :
          kw \in {None, Dict([nbins |-> <<2>>])} \cup {Dict([bins |-> b]) : b \in BinSpecs}}
  \cup {("dcycle stat" :> Str(d)) : d \in {"frequency", "intensity"}}
HourOptions == {None, List(<<0>>), List(<<0, 7>>)}

FilterOptions ==
  {("window" :> Num(w)) @@ ("mode" :> md) @@ ("cutoff type" :> Str(ft)) @@
   ("1st cutoff" :> c1) @@ ("2nd cutoff" :> c2) :
      w \in 1..(SeriesLen + 1),
      md \in {Str("valid"), Str("same"), Str("full"), None},
      ft \in {"lowpass", "highpass", "bandpass"},
      c1 \in {None, Num(4)}, c2 \in {None, Num(2), Num(0)}}
FilterKinds ==
  {("filter" :> Str(f)) @@ ("filter dim" :> Num(d)) :
      f \in {"lanczos", "butterworth"}, d \in 1..2}

StatMethods ==
  {Txt(m) : m \in {w_mean, w_percentile \o <<" ", "9", "5">>, w_percentile,
                   w_percentile \o <<" ", "[", "9", "5", "]">>, <<"s", "t", "d">>}}

PdfBins == {<<0, 5, 10>>, <<0, 1, 2, 10>>, <<-5, 0, 10>>}
PdfObs == {-5, 0, 1, 9, NaN}

\* The hourly means of one pixel over a day, some of them missing
HoursPerDay == 24
MissingHours == {1, 12, HoursPerDay}
HourlyPixels ==
  {[h \in 1..HoursPerDay |-> IF h \in miss THEN Num(NaN) ELSE Num(IF ramp THEN h ELSE 5)] :
     miss \in SUBSET MissingHours, ramp \in BOOLEAN}
\* The pixels of one block
BlockPixels == 2
HarmonicInputs ==
  {[ndim |-> 1, vals |-> px] : px \in HourlyPixels}
  \cup {[ndim |-> 2, rows |-> rows] : rows \in [1..BlockPixels -> HourlyPixels]}

UnknownStats == {"median", "rxx", "signal_filtering"}

Init ==
  /\ op = "init"
  /\ args = <<>>
  /\ ret = [status |-> "ok"]
  /\ printed = {}
  /\ calls = <<>>

\* The functions keep no state between calls, so a behaviour is one call
\* made from the initial state.
ModStatsConfig ==
  /\ op = "init"
  /\ \E requested_stats \in Requests :
       LET r == mod_stats_config(requested_stats) IN
       /\ op' = "mod_stats_config"
       /\ args' = <<requested_stats>>
       /\ ret' = [x \in DOMAIN r \ {"printed"} |-> r[x]]
       /\ printed' = r.printed
       /\ calls' = <<>>

\* The calls calc_statistics(data, var, stat, stat_config) a caller makes:
\* per statistic, the data handed over and the options the caller overrides
\* in the configuration mod_stats_config builds.
CalcStats == DOMAIN p_table \cup UnknownStats

DataFor(stat) ==
  CASE stat = "moments" -> Datas(StepAxes, {1, 5, NaN})
    [] stat \in {"seasonal cycle", "annual cycle"} ->
         Datas({TimeAxis(0, 30 * 86400)}, {1, 5, NaN})
    [] stat = "percentile" -> Datas({TimeAxis(0, 3600)}, Obs)
    [] stat \in {"diurnal cycle", "dcycle harmonic"} -> Datas(HourAxes, {0, 5, NaN})
    [] stat = "pdf" -> Datas({TimeAxis(0, 3600)}, {-5, 1, NaN})
    [] stat = "Rxx" -> Datas({TimeAxis(0, 86400)}, Obs)
    [] OTHER -> {RampData}

OptionsFor(stat) ==
  CASE stat = "moments" ->
         {("moment stat" :> ms) @@ ("thr" :> thr) :
            ms \in MomentStats, thr \in {None, Dict([pr |-> Num(5)])}}
    [] stat \in {"seasonal cycle", "annual cycle"} ->
         {("stat method" :> m) @@ ("thr" :> thr) :
            m \in StatMethods, thr \in ThrOptions}
    [] stat = "percentile" ->
         {("pctls" :> pctls) @@ ("thr" :> thr) :
            pctls \in {List(<<Num(95), Num(99)>>), Num(50)}, thr \in ThrOptions}
    [] stat = "diurnal cycle" ->
         {o @@ ("thr" :> thr) @@ ("hours" :> hrs) :
            o \in DiurnalOptions, thr \in ThrOptions, hrs \in HourOptions}
    [] stat = "dcycle harmonic" ->
         {("dcycle stat" :> Str(d)) @@ ("thr" :> thr) :
            d \in {"amount", "frequency", "intensity"}, thr \in ThrOptions}
    [] stat = "pdf" ->
         {("bins" :> bins) @@ ("thr" :> thr) @@ ("normalized" :> normalized) :
            bins \in {None} \cup {Dict([pr |-> b]) : b \in BinSpecs}, thr \in ThrOptions,
            normalized \in {Bool(FALSE), Bool(TRUE), Dict([pr |-> Bool(TRUE)])}}
    [] stat = "asop" ->
         {("nr_bins" :> nr) @@ ("thr" :> thr) :
            nr \in {None, Num(80), Num(2)}, thr \in ThrOptions}
    [] stat = "eda" ->
         {("dry events" :> Bool(dry)) @@ ("duration bins" :> db) :
            dry \in BOOLEAN, db \in {None, Arange(1, 51), List(<<Num(1), Num(2)>>)}}
    [] stat = "Rxx" ->
         {("thr" :> thr) @@ ("normalize" :> Bool(normalize)) :
            thr \in ThrOptions \cup {stats_dict["Rxx"]["thr"]}, normalize \in BOOLEAN}
    [] stat = "signal filtering" ->
         {o @@ k @@ ("thr" :> thr) :
            o \in FilterOptions, k \in FilterKinds,
            thr \in {None, Dict([pr |-> Num(5)])}}
    [] OTHER -> {<<>>}

\* stat_config of the call: a name outside the table comes with the
\* configuration of some registered statistic.
ConfigFor(stat, options) ==
  IF stat \in DOMAIN p_table THEN config_of(stat, options)
  ELSE config_of("moments", options)

\* One call calc_statistics(data, var, stat, stat_config).
CalcStatistics ==
  /\ op = "init"
  /\ \E stat \in CalcStats :
       \E data \in DataFor(stat), var \in Vars, options \in OptionsFor(stat) :
         LET stat_config == ConfigFor(stat, options)
             r == calc_statistics(data, var, stat, stat_config) IN
         /\ op' = "calc_statistics"
         /\ args' = <<data, var, stat, stat_config>>
         /\ ret' = r.ret
         /\ printed' = {}
         /\ calls' = r.calls

\* A direct call _harmonic_linefit(data, keepdims=keepdims, axis=-1): calls
\* lists the pixels handed to the least-squares fit.
HarmonicLinefit ==
  /\ op = "init"
  /\ \E data \in HarmonicInputs, keepdims \in BOOLEAN :
       LET r == _harmonic_linefit(data, keepdims) IN
       /\ op' = "_harmonic_linefit"
       /\ args' = <<data, keepdims>>
       /\ ret' = [x \in DOMAIN r \ {"printed", "fits"} |-> r[x]]
       /\ printed' = r.printed
       /\ calls' = IF r.status = "ok"
                     THEN [i \in 1..Cardinality(r.fits) |->
                             [kernel |-> "curve_fit",
                              pixel |-> CHOOSE p \in r.fits :
                                          Cardinality({x \in r.fits : x < p}) = i - 1]]
                     ELSE <<>>

\* A direct call _percentile_func(arr, axis=-1, q=q, thr=thr) on the
\* caller's array arr: ret holds, beside the value returned, the caller's
\* array as it is after the call.
PercentileFunc ==
  /\ op = "init"
  /\ \E arr \in Series(Obs), q \in {List(<<Num(95)>>), List(<<Num(95), Num(99)>>)},
        thr \in {None, Num(5)} :
       LET r == _percentile_func(arr, q, thr) IN
       /\ op' = "_percentile_func"
       /\ args' = <<arr, q, thr>>
       /\ ret' = [status |-> "ok", value |-> [q |-> r.q, of |-> r.of],
                  arr |-> r.arr_after]
       /\ printed' = {}
       /\ calls' = <<>>

\* A direct call _pdf_calc(data, bins=bins, norm=norm, thr=thr,
\* dry_event_thr=dry): ret is what the call returns and holds, beside it,
\* the local hist the body computed.
PdfCalc ==
  /\ op = "init"
  /\ \E data \in Series(PdfObs), bins \in PdfBins, norm \in BOOLEAN,
        thr \in {None, Num(1)}, dry \in {None, Num(1)} :
       /\ op' = "_pdf_calc"
       /\ args' = <<data, bins, norm, thr, dry>>
       /\ ret' = [status |-> "ok",
                  value |-> _pdf_calc(data, bins, norm, thr, dry),
                  hist |-> _pdf_calc_hist(data, bins, norm, thr, dry)]
       /\ printed' = {}
       /\ calls' = <<>>

GetFreq ==
  /\ op = "init"
  /\ \E tf \in {<<"1">> \o t : t \in FreqTokens} \cup FreqTokens :
       /\ op' = "_get_freq"
       /\ args' = <<tf>>
       /\ ret' = _get_freq(tf)
       /\ printed' = {}
       /\ calls' = <<>>

Next ==
  \/ ModStatsConfig
  \/ CalcStatistics
  \/ PdfCalc
  \/ HarmonicLinefit
  \/ PercentileFunc
  \/ GetFreq

Spec == Init /\ [][Next]_vars

(***************************************************************************)
(* Properties                                                              *)
(***************************************************************************)
IsCalc(stat) == op = "calc_statistics" /\ args[3] = stat
\* The configuration record the call was given for its statistic.
Cfg == args[4][args[3]]

\* C1: mod_stats_config returns, for every requested statistic, a record
\* whose key set equals the key set of the statistic's default schema; an
\* overridden schema key holds the caller's value, every other schema key
\* its default; an override key outside the schema is reported with a
\* diagnostic and never set; 'default' yields the defaults unchanged.
C1_UnknownKeysRejected ==
  (op = "mod_stats_config" /\ ret.status = "ok") =>
    \A k \in DOMAIN args[1] :
      LET req == args[1][k]
          schema == stats_dict[k]
          got == ret.value[k]
      IN /\ DOMAIN got = DOMAIN schema
         /\ IF req = Str("default") THEN got = schema
            ELSE /\ \A m \in DOMAIN schema :
                      got[m] = IF m \in DOMAIN req.m THEN req.m[m] ELSE schema[m]
                 /\ \A m \in DOMAIN req.m \ DOMAIN schema : <<k, m>> \in printed

\* C2: calc_statistics with a registered statistic name invokes exactly the
\* kernel registered for the name, once, with (data, variable, statistic
\* name, configuration); with an unregistered name it fails with an error
\* that reaches the caller and no kernel is invoked.
C2_DispatchesRegisteredKernel ==
  op = "calc_statistics" =>
    IF args[3] \in DOMAIN p_table
      THEN /\ calls = <<[kernel |-> p_table[args[3]], args |-> args]>>
           /\ ret.status = "ok" => ret.kernel = p_table[args[3]]
      ELSE /\ ret.status = "KeyError"
           /\ calls = <<>>

C2_Witness ==
  /\ op = "calc_statistics"
  /\ args[3] = "pdf"
  /\ Len(calls) = 1
  /\ ret.status = "ok"

\* C3: a threshold option that is absent, a single number or a mapping from
\* variable to bound is resolved to a per-variable bound before the kernel
\* runs; Rxx with its default configuration (scalar thr of 1.0) resolves
\* the threshold to 1.0 and completes without error.
C3_ScalarThresholdResolves ==
  IsCalc("Rxx") =>
    /\ Cfg["thr"].kind = "num" => (ret.status = "ok" /\ ret.thr = Cfg["thr"])
    /\ (Cfg["thr"].kind = "dict" /\ args[2] \in DOMAIN Cfg["thr"].m) =>
         (ret.status = "ok" /\ ret.thr = Cfg["thr"].m[args[2]])

\* The hour of the day of stamp i once stamps past the hour are moved up.
C4_Hour(data, i) ==
  LET shift == \E j \in DOMAIN data.time : data.time[j] % 3600 >= 60
      t == IF shift /\ data.time[i] % 3600 /= 0
             THEN data.time[i] + (3600 - (data.time[i] % 3600)) ELSE data.time[i]
  IN (t \div 3600) % 24
C4_Exceedances(data, h, bound) ==
  Cardinality({i \in DOMAIN data.vals :
                 /\ C4_Hour(data, i) = h
                 /\ data.vals[i] /= NaN
                 /\ data.vals[i] >= bound})
C4_Frequency ==
  /\ op = "calc_statistics"
  /\ args[3] \in {"diurnal cycle", "dcycle harmonic"}
  /\ Cfg["dcycle stat"] = Str("frequency")

\* C4: in diurnal_cycle and dcycle_harmonic_fit with 'dcycle stat' equal to
\* 'frequency', when no threshold resolves for the variable (thr absent, or
\* a mapping without the variable) the call fails with an explicit error
\* and returns no result; when a threshold resolves, the per-hour value is
\* the count of observations greater than or equal to the threshold.
C4_FrequencyNeedsThreshold ==
  C4_Frequency =>
    LET in_thr == Cfg["thr"]
        unresolved == \/ in_thr = None
                      \/ in_thr.kind = "dict" /\ args[2] \notin DOMAIN in_thr.m
        percycle == IF args[3] = "diurnal cycle" THEN ret.st_data.values
                    ELSE ret.st_data.dcycle
    IN /\ unresolved => ret.status = "AssertionError"
       /\ ret.status = "ok" =>
            /\ in_thr.kind = "dict"
            /\ ret.thr = in_thr.m[args[2]]
            /\ \A h \in DOMAIN percycle :
                 percycle[h] = Num(C4_Exceedances(args[1], h, in_thr.m[args[2]].v))

C4_Witness ==
  /\ C4_Frequency
  /\ args[3] = "diurnal cycle"
  /\ ret.status = "ok"
  /\ \E h \in DOMAIN ret.st_data.values : ret.st_data.values[h] = Num(2)
  /\ \E i \in DOMAIN args[1].vals : args[1].vals[i] = 5

C5_ThreeKinds ==
  {Txt(w_mean), Txt(w_max), Txt(w_percentile \o <<" ", "9", "5">>), Txt(w_pdf)}

\* C5: diurnal_cycle in 'amount' mode completes and returns a labeled result
\* carrying a 'Description' for each kind of stat method: a named
\* reduction, 'percentile <q>' (axes 'pctls' and 'hour') and 'pdf' (axes
\* 'bins' and 'hour').
C5_AmountModeCompletes ==
  ( /\ IsCalc("diurnal cycle")
    /\ Cfg["dcycle stat"] = Str("amount")
    /\ Cfg["stat method"] \in C5_ThreeKinds
    /\ Cfg["stat method"] = Txt(w_pdf) =>
         (Cfg["method kwargs"].kind = "dict" /\ "bins" \in DOMAIN Cfg["method kwargs"].m)
    /\ Cfg["thr"] = None
    /\ Cfg["hours"] = None ) =>
      /\ ret.status = "ok"
      /\ "Description" \in DOMAIN ret
      /\ Cfg["stat method"] = Txt(w_pdf) => ret.st_data.axes = <<"bins", "hour">>
      /\ contains(Cfg["stat method"].cs, w_percentile) =>
           ret.st_data.axes = <<"pctls", "hour">>

\* C6: moments configured with the 'all' moment statistic takes the
\* whole-time-axis branch and reduces the entire time axis to one value
\* per pixel, without resampling.
C6_AllReducesWholeAxis ==
  ( /\ IsCalc("moments")
    /\ Cfg["moment stat"].kind = "list"
    /\ Cfg["moment stat"].items[1] = Txt(<<"a", "l", "l">>)
    /\ Cfg["thr"] = None ) =>
      /\ ret.status = "ok"
      /\ ret.branch = "all"

\* The spacing of the first two stamps and the time step of the token the
\* call resolved, in seconds.
C7_Spacing == args[1].time[2] - args[1].time[1]
C7_Token ==
  LET ms == IF Cfg["moment stat"].kind = "dict" THEN Cfg["moment stat"].m[args[2]]
            ELSE Cfg["moment stat"]
  IN <<"1">> \o ms.items[1].cs
C7_Method ==
  LET ms == IF Cfg["moment stat"].kind = "dict" THEN Cfg["moment stat"].m[args[2]]
            ELSE Cfg["moment stat"]
  IN ms.items[2].s
C7_UnitSeconds(u) ==
  CASE u = "H" -> 3600 [] u = "D" -> 86400 [] u = "M" -> 30 * 86400
    [] u = "Y" -> 365 * 86400 [] u = "Q" -> 90 * 86400
C7_Step ==
  LET tok == C7_Token
      nd == Cardinality({i \in DOMAIN tok : \A j \in 1..i : tok[j] \in Digits})
      u == tok[nd + 1]
      count == IF u = "Q" THEN 1 ELSE py_int(SubSeq(tok, 1, nd))
  IN count * C7_UnitSeconds(u)
C7_Masked ==
  IF ret.thr = None THEN args[1]
  ELSE [args[1] EXCEPT !.vals =
          [i \in DOMAIN args[1].vals |->
             IF args[1].vals[i] /= NaN /\ args[1].vals[i] >= ret.thr.v
               THEN args[1].vals[i] ELSE NaN]]

\* C7 as stated: moments passes the data through exactly when the requested
\* time step is at least the spacing of the first two timestamps.
C7_KeepsWhenRequestCoarser ==
  (IsCalc("moments") /\ ret.status = "ok") =>
    (ret.branch = "keep" <=> C7_Step >= C7_Spacing)

\* C7 (amended): moments skips resampling and passes the threshold-masked
\* data through exactly when the spacing of the first two timestamps is at
\* least the time step it derives from the resolution token (the token
\* with '1' put in front, parsed by _get_freq); otherwise it resamples to
\* that token and applies the named reduction per bin.
C7_KeepsWhenDataCoarser ==
  (IsCalc("moments") /\ ret.status = "ok") =>
    /\ ret.branch = "keep" <=> C7_Spacing >= C7_Step
    /\ ret.branch = "keep" => ret.st_data = C7_Masked
    /\ ret.branch /= "keep" =>
         /\ ret.branch = "resample"
         /\ ret.freq = Txt(C7_Token)
         /\ ret.method = C7_Method
         /\ \A k \in DOMAIN ret.st_data : ret.st_data[k].kind \in {"num", "frac"}

C7_Witness ==
  /\ IsCalc("moments")
  /\ ret.status = "ok"
  /\ ret.branch = "keep"
  /\ C7_Spacing = C7_Step

C8_Window == Cfg["window"].v
C8_Length == Len(args[1].time)

\* C8 as stated: an even window is rejected before any weights are built;
\* for an odd window the declared length of the 'filtered' axis is
\* input_length - window + 1 when mode is 'valid' and input_length for
\* every other mode.
C8_ValidOnlyShortens ==
  IsCalc("signal filtering") =>
    /\ C8_Window % 2 = 0 => (ret.status = "AssertionError" /\ "wgts" \notin DOMAIN ret)
    /\ (C8_Window % 2 = 1 /\ ret.status = "ok") =>
         ret.st_data.sizes.filtered =
           IF Cfg["mode"] = Str("valid") THEN C8_Length - C8_Window + 1
           ELSE C8_Length

\* C8 (amended): an even window is rejected with a fatal error before any
\* filter weights are built; for an odd window the declared length of the
\* 'filtered' axis is input_length - window + 1 when mode is 'valid' or
\* None, and input_length for every other mode.
C8_ValidOrNoneShortens ==
  IsCalc("signal filtering") =>
    /\ C8_Window % 2 = 0 => (ret.status = "AssertionError" /\ "wgts" \notin DOMAIN ret)
    /\ (C8_Window % 2 = 1 /\ ret.status = "ok") =>
         ret.st_data.sizes.filtered =
           IF Cfg["mode"] \in {Str("valid"), None} THEN C8_Length - C8_Window + 1
           ELSE C8_Length

C8_Witness ==
  /\ IsCalc("signal filtering")
  /\ ret.status = "ok"
  /\ C8_Window = 3
  /\ Cfg["mode"] = Str("valid")
  /\ ret.st_data.sizes.filtered = C8_Length - 2

\* C9: a low-pass or high-pass request with only the '1st cutoff' set (the
\* '2nd cutoff' left at its absent default) builds weights and completes; a
\* band-pass request with the '2nd cutoff' absent fails with the explicit
\* error that the second cutoff must be set.
C9_OneCutoffSuffices ==
  ( /\ IsCalc("signal filtering")
    /\ C8_Window % 2 = 1
    /\ Cfg["filter"] = Str("lanczos")
    /\ Cfg["filter dim"] = Num(1)
    /\ Cfg["thr"] = None
    /\ Cfg["1st cutoff"] = Num(4)
    /\ Cfg["2nd cutoff"] = stats_dict["signal filtering"]["2nd cutoff"] ) =>
      IF Cfg["cutoff type"] = Str("bandpass")
        THEN ret.status = "AssertionError"
        ELSE ret.status = "ok" /\ "wgts" \in DOMAIN ret

\* Some bin holds at least one of the values that are binned.
C10_SomeBinOccupied ==
  LET data == args[1]
      bins == args[2]
      thr == args[4]
  IN \E i \in DOMAIN data :
       /\ data[i] /= NaN
       /\ thr /= None => data[i] >= thr.v
       /\ bins[1] <= data[i]
       /\ data[i] < bins[Len(bins)]

\* C10: in normalized mode the per-bin contribution vector of _pdf_calc
\* (the slots after the leading dry-event slot) sums to 1 for every input
\* series and bin edges where at least one bin has a nonzero occurrence
\* count.
C10_NormalizedSumsToOne ==
  (op = "_pdf_calc" /\ args[3] /\ C10_SomeBinOccupied) =>
    REq(Rsum(Tail(ret.hist)), R(1))

\* The edges derived from the specification (start, stop, step) number
\* ceil((stop - start)/step).
C11_CeilEdges(spec, edges) ==
  /\ Len(edges) * spec[3] >= spec[2] - spec[1]
  /\ (Len(edges) - 1) * spec[3] < spec[2] - spec[1]

\* A freq_int_dist call that returned with a bin specification set for the
\* variable, and a diurnal 'pdf' call that returned.
C11_PdfSpec ==
  /\ IsCalc("pdf") /\ ret.status = "ok"
  /\ Cfg["bins"].kind = "dict" /\ args[2] \in DOMAIN Cfg["bins"].m
C11_DiurnalSpec ==
  /\ IsCalc("diurnal cycle") /\ ret.status = "ok"
  /\ Cfg["dcycle stat"] = Str("amount") /\ Cfg["stat method"] = Txt(w_pdf)

\* C11 as stated: the number of edges derived from (start, stop, step) is
\* ceil((stop - start)/step) and the declared length of the output 'bins'
\* axis, in freq_int_dist and in the diurnal 'pdf' method, is edges - 1.
C11_BinsAxisIsEdgesMinusOne ==
  /\ C11_PdfSpec =>
       /\ C11_CeilEdges(Cfg["bins"].m[args[2]], ret.st_data.bin_edges.edges)
       /\ ret.st_data.sizes.bins = Len(ret.st_data.bin_edges.edges) - 1
  /\ C11_DiurnalSpec =>
       /\ C11_CeilEdges(Cfg["method kwargs"].m["bins"], ret.st_data.coords.bins)
       /\ ret.st_data.sizes.bins = Len(ret.st_data.coords.bins) - 1

\* C11 (amended): for start < stop and step > 0 the number of edges derived
\* from (start, stop, step) is ceil((stop - start)/step), and the declared
\* length of the output 'bins' axis is (edges - 1) + 1 = edges: the
\* edges - 1 bins and the leading dry-event slot.
C11_BinsAxisIsEdges ==
  /\ C11_PdfSpec =>
       /\ C11_CeilEdges(Cfg["bins"].m[args[2]], ret.st_data.bin_edges.edges)
       /\ ret.st_data.sizes.bins = (Len(ret.st_data.bin_edges.edges) - 1) + 1
  /\ C11_DiurnalSpec =>
       /\ C11_CeilEdges(Cfg["method kwargs"].m["bins"], ret.st_data.coords.bins)
       /\ ret.st_data.sizes.bins = (Len(ret.st_data.coords.bins) - 1) + 1

C11_Witness ==
  /\ C11_PdfSpec
  /\ Cfg["bins"].m[args[2]] = <<0, 10, 3>>
  /\ ret.st_data.sizes.bins = 4

\* C12: freq_int_dist with no bin specification set for the variable,
\* the default configuration included, builds its edges from the
\* variable's minimum and maximum split into 20 bins and completes.
C12_UnsetBinsUseMinMax ==
  ( /\ IsCalc("pdf")
    /\ Cfg["thr"] = None
    /\ Cfg["bins"] = None \/ args[2] \notin DOMAIN Cfg["bins"].m ) =>
      /\ ret.status = "ok"
      /\ ret.st_data.bin_edges.kind = "linspace"
      /\ ret.st_data.sizes.bins - 1 = 20

\* A stat method that holds 'percentile' and nothing after a white space
C13_Malformed(tstat) ==
  tstat.kind = "txt" /\ contains(tstat.cs, w_percentile) /\ after_space(tstat.cs) = <<>>

\* C13: in seasonal_cycle, annual_cycle and diurnal_cycle (amount mode) a
\* stat method that contains 'percentile' without a percentile argument
\* after a white space raises the error carrying the usage message, and no
\* result is returned.
C13_MalformedPercentileIsUsageError ==
  ( /\ \/ IsCalc("seasonal cycle")
       \/ IsCalc("annual cycle")
       \/ IsCalc("diurnal cycle") /\ Cfg["dcycle stat"] = Str("amount")
    /\ Cfg["thr"] = None
    /\ C13_Malformed(Cfg["stat method"]) ) =>
      /\ ret.status = "ValueError"
      /\ "msg" \in DOMAIN ret
      /\ ret.msg = errmsg

\* C14: a call of _harmonic_linefit over a block of pixels returns, for
\* every pixel, a vector of exactly 204 entries: all missing, and no fit
\* attempted, when the pixel's hourly input holds a missing value; else
\* (c1, p1, c2, p2) of that pixel followed by the 200 points of the curve.
\* A pixel with missing input does not keep the other pixels of the block
\* from being fitted.
C14_Rows == IF args[1].ndim = 1 THEN <<args[1].vals>> ELSE args[1].rows
C14_Fitted == {calls[i].pixel : i \in DOMAIN calls}
C14_EveryPixel204 ==
  (op = "_harmonic_linefit" /\ args[2]) =>
    /\ ret.status = "ok"
    /\ DOMAIN ret.value = DOMAIN C14_Rows
    /\ \A p \in DOMAIN C14_Rows :
         /\ Len(ret.value[p]) = 204
         /\ IF any_isnan(C14_Rows[p])
              THEN /\ \A i \in 1..204 : ret.value[p][i] = Num(NaN)
                   /\ p \notin C14_Fitted
              ELSE /\ \A i \in 1..4 :
                        ret.value[p][i] =
                          [param |-> <<"c1", "p1", "c2", "p2">>[i], of |-> C14_Rows[p]]
                   /\ \A i \in 5..204 : ret.value[p][i] = [r |-> i - 4]
                   /\ p \in C14_Fitted

C14_Witness ==
  /\ op = "_harmonic_linefit" /\ args[2] /\ args[1].ndim = 2
  /\ any_isnan(args[1].rows[1])
  /\ ~any_isnan(args[1].rows[2])
  /\ C14_Fitted = {2}
  /\ ret.value[1][204] = Num(NaN)

\* C15: no kernel mutates its input in place: after a call of the
\* percentile kernel _percentile_func, with a threshold set or not, the
\* values of the array the caller handed over are the same as before.
C15_InputArrayUnchanged ==
  op = "_percentile_func" => ret.arr = args[1]

\* The token '<n><unit>' of a _get_freq call: decimal digits, then a unit.
C16_N == py_int(keep_chars(args[1], TRUE))
C16_Unit == keep_chars(args[1], FALSE)
C16_WellFormed ==
  /\ op = "_get_freq"
  /\ keep_chars(args[1], TRUE) /= <<>> /\ C16_Unit /= <<>>
  /\ args[1] = keep_chars(args[1], TRUE) \o C16_Unit
  /\ C16_N > 0

\* C16: _get_freq of '<n><unit>' returns (n, unit) for day/hour-style
\* units, (30*n, 'D') for 'M', (365*n, 'D') for 'Y' and (90*n, 'D') for a
\* quarter unit, for every positive n.
C16_CalendarUnitsAreDayMultiples ==
  C16_WellFormed =>
    /\ ret.status = "ok"
    /\ C16_Unit \in {<<"D">>, <<"H">>} => (ret.freq = C16_N /\ ret.unit = C16_Unit)
    /\ C16_Unit = <<"M">> => (ret.freq = 30 * C16_N /\ ret.unit = <<"D">>)
    /\ C16_Unit = <<"Y">> => (ret.freq = 365 * C16_N /\ ret.unit = <<"D">>)
    /\ C16_Unit[1] = "Q" => (ret.freq = 90 * C16_N /\ ret.unit = <<"D">>)

====
